---- MODULE Spec2Model ----
(***************************************************************************)
(* State-machine model of the Tetris engine in src/tetris-game.tsx.        *)
(*                                                                         *)
(* The React state of TetrisGame (board, currentPiece, score, lines,       *)
(* level, gameOver, isPaused) is the state of the machine.  Every callback *)
(* is one action: the timer callback, each case of the key handler, the    *)
(* two buttons, and the effect that recomputes level.  A callback reads    *)
(* the state of the render that created it, so inside one callback the     *)
(* board, the piece and the level are those from before its own setState   *)
(* calls.  The level effect is a callback of its own: it runs after the    *)
(* render that committed a new line count, and other callbacks may run     *)
(* before it.                                                              *)
(*                                                                         *)
(* Rows and columns are 0-based in the source and 1-based in the           *)
(* sequences below: cell (x, y) of the source is b[y + 1][x + 1].          *)
(***************************************************************************)
EXTENDS Integers, Sequences, FiniteSets, TLC

\* BOARD_WIDTH and BOARD_HEIGHT are 10 and 20 in the source; the model is
\* checked on a scaled-down board, wide enough for the I piece and high
\* enough for its vertical orientation.
BOARD_WIDTH == 4
BOARD_HEIGHT == 4

\* Cap on the line counter, so that the reachable state space is finite.
MaxLines == 2

\* Cap on the line counter in SpecLevel, which draws only I pieces and so gets
\* far enough to cross a level boundary (10 lines).
MaxLinesLevel == 11

\* "no piece" (currentPiece === null), as a record so that it compares with pieces
NULL == [shape |-> <<>>, color |-> "null", position |-> [x |-> 0, y |-> 0]]

TETROMINOES ==
  [ I |-> [shape |-> << <<0,0,0,0>>, <<1,1,1,1>>, <<0,0,0,0>>, <<0,0,0,0>> >>, color |-> "#00f0f0"],
    O |-> [shape |-> << <<1,1>>, <<1,1>> >>, color |-> "#f0f000"],
    T |-> [shape |-> << <<0,1,0>>, <<1,1,1>>, <<0,0,0>> >>, color |-> "#a000f0"],
    S |-> [shape |-> << <<0,1,1>>, <<1,1,0>>, <<0,0,0>> >>, color |-> "#00f000"],
    Z |-> [shape |-> << <<1,1,0>>, <<0,1,1>>, <<0,0,0>> >>, color |-> "#f00000"],
    J |-> [shape |-> << <<1,0,0>>, <<1,1,1>>, <<0,0,0>> >>, color |-> "#0000f0"],
    L |-> [shape |-> << <<0,0,1>>, <<1,1,1>>, <<0,0,0>> >>, color |-> "#f0a000"] ]

\* Object.keys(TETROMINOES)
types == DOMAIN TETROMINOES

\* The types the random source draws in SpecLevel
LevelTypes == {"I"}

EmptyRow == [x \in 1..BOARD_WIDTH |-> 0]

EMPTY_BOARD == [y \in 1..BOARD_HEIGHT |-> EmptyRow]

\* The React state of TetrisGame, and closure: the values of the render whose
\* callbacks (interval callback, keydown listener, button handlers) are the
\* ones currently registered
VARIABLES board, currentPiece, score, lines, level, gameOver, isPaused, closure

vars == <<board, currentPiece, score, lines, level, gameOver, isPaused>>

allvars == <<vars, closure>>

\* What a render of the current state hands to the callbacks it creates (the
\* dependencies of movePieceDown and handleKeyPress, and the button props)
Render ==
  [board |-> board, currentPiece |-> currentPiece, level |-> level,
   gameOver |-> gameOver, isPaused |-> isPaused]

\* The re-render after a state update, with its effects: the callbacks of the
\* new render replace the registered ones
Commit == closure' = Render'

\* createRandomPiece with the piece placed one row above the grid
createRandomPieceAbove(randomType) ==
  LET tetromino == TETROMINOES[randomType]
  IN [shape |-> tetromino.shape,
      color |-> tetromino.color,
      position |-> [x |-> (BOARD_WIDTH \div 2) - (Len(tetromino.shape[1]) \div 2), y |-> 0 - 1]]

\* createRandomPiece, with the random type as parameter
createRandomPiece(randomType) ==
  LET tetromino == TETROMINOES[randomType]
  IN [shape |-> tetromino.shape,
      color |-> tetromino.color,
      position |-> [x |-> (BOARD_WIDTH \div 2) - (Len(tetromino.shape[1]) \div 2), y |-> 0]]

\* isValidPosition that also rejects the cells above the grid (newY < 0)
isValidPositionRejectsAbove(b, shape, newPosition) ==
  \A y \in 0..(Len(shape) - 1) : \A x \in 0..(Len(shape[y + 1]) - 1) :
    shape[y + 1][x + 1] # 0 =>
      LET newX == newPosition.x + x
          newY == newPosition.y + y
      IN /\ ~(newX < 0 \/ newX >= BOARD_WIDTH \/ newY >= BOARD_HEIGHT \/ newY < 0)
         /\ ~(b[newY + 1][newX + 1] # 0)

\* isValidPosition: b is the board the callback closes over
isValidPosition(b, shape, newPosition) ==
  \A y \in 0..(Len(shape) - 1) : \A x \in 0..(Len(shape[y + 1]) - 1) :
    shape[y + 1][x + 1] # 0 =>
      LET newX == newPosition.x + x
          newY == newPosition.y + y
      IN /\ ~(newX < 0 \/ newX >= BOARD_WIDTH \/ newY >= BOARD_HEIGHT)
         /\ ~(newY >= 0 /\ b[newY + 1][newX + 1] # 0)

\* rotatePiece without the reverse() of each column: a transposition
rotatePieceNoReverse(shape) ==
  [index \in 1..Len(shape[1]) |->
     [j \in 1..Len(shape) |-> shape[j][index]]]

\* rotatePiece with the reverse() applied to the list of columns instead of to
\* each column: a counter-clockwise rotation
rotatePieceReversedOutside(shape) ==
  [index \in 1..Len(shape[1]) |->
     [j \in 1..Len(shape) |-> shape[j][Len(shape[1]) - index + 1]]]

\* rotatePiece: rotated[index] is column index of shape, reversed
rotatePiece(shape) ==
  [index \in 1..Len(shape[1]) |->
     [j \in 1..Len(shape) |-> shape[Len(shape) - j + 1][index]]]

\* placePiece that starts from an empty grid instead of a copy of b
placePieceOnEmpty(b, piece) ==
  [by \in 1..Len(b) |->
     [bx \in 1..Len(b[by]) |->
        LET y == (by - 1) - piece.position.y
            x == (bx - 1) - piece.position.x
        IN IF /\ y >= 0 /\ y < Len(piece.shape)
              /\ x >= 0 /\ x < Len(piece.shape[y + 1])
              /\ piece.shape[y + 1][x + 1] # 0
           THEN 1
           ELSE 0]]

\* placePiece: copy of b with the set cells of the piece (row >= 0) marked
placePiece(b, piece) ==
  [by \in 1..Len(b) |->
     [bx \in 1..Len(b[by]) |->
        LET y == (by - 1) - piece.position.y
            x == (bx - 1) - piece.position.x
        IN IF /\ y >= 0 /\ y < Len(piece.shape)
              /\ x >= 0 /\ x < Len(piece.shape[y + 1])
              /\ piece.shape[y + 1][x + 1] # 0
           THEN 1
           ELSE b[by][bx]]]

RowHasEmptyCell(row) == \E x \in 1..Len(row) : row[x] = 0

\* clearLines that removes only the lowest complete row
clearLinesLowestOnly(b) ==
  LET full == { y \in 1..Len(b) : ~RowHasEmptyCell(b[y]) }
  IN IF full = {}
     THEN [newBoard |-> b, linesCleared |-> 0]
     ELSE LET low == CHOOSE y \in full : \A z \in full : z <= y
          IN [newBoard |-> <<EmptyRow>> \o SubSeq(b, 1, low - 1) \o SubSeq(b, low + 1, Len(b)),
              linesCleared |-> 1]

\* clearLines with the empty rows pushed at the bottom instead of unshifted
clearLinesPush(b) ==
  LET kept == SelectSeq(b, RowHasEmptyCell)
      linesCleared == BOARD_HEIGHT - Len(kept)
  IN [newBoard |-> kept \o [y \in 1..linesCleared |-> EmptyRow],
      linesCleared |-> linesCleared]

\* clearLines: filter the incomplete rows, unshift empty rows up to the height
clearLines(b) ==
  LET kept == SelectSeq(b, RowHasEmptyCell)
      linesCleared == BOARD_HEIGHT - Len(kept)
  IN [newBoard |-> [y \in 1..linesCleared |-> EmptyRow] \o kept,
      linesCleared |-> linesCleared]

\* useState initial values, then the "Initialize game" effect of the mount;
\* rng is the set of types the random source draws from
InitWith(rng) ==
  /\ board = EMPTY_BOARD
  /\ \E randomType \in rng : currentPiece = createRandomPiece(randomType)
  /\ score = 0
  /\ lines = 0
  /\ level = 1
  /\ gameOver = FALSE
  /\ isPaused = FALSE
  /\ closure = Render

Init == InitWith(types)

\* movePieceDown without setCurrentPiece(nextPiece)
movePieceDownKeepsPiece(rng, cap) ==
  IF closure.currentPiece = NULL \/ closure.gameOver \/ closure.isPaused
  THEN UNCHANGED vars
  ELSE LET newPosition == [closure.currentPiece.position EXCEPT !.y = closure.currentPiece.position.y + 1]
       IN IF isValidPosition(closure.board, closure.currentPiece.shape, newPosition)
          THEN /\ currentPiece' = [closure.currentPiece EXCEPT !.position = newPosition]
               /\ UNCHANGED <<board, score, lines, level, gameOver, isPaused>>
          ELSE LET newBoard == placePiece(closure.board, closure.currentPiece)
                   cleared == clearLines(newBoard)
               IN /\ lines + cleared.linesCleared <= cap
                  /\ board' = cleared.newBoard
                  /\ lines' = lines + cleared.linesCleared
                  /\ score' = score + cleared.linesCleared * 100 * closure.level
                  /\ \E randomType \in rng :
                       LET nextPiece == createRandomPiece(randomType)
                       IN IF ~isValidPosition(closure.board, nextPiece.shape, nextPiece.position)
                          THEN gameOver' = TRUE /\ UNCHANGED currentPiece
                          ELSE UNCHANGED <<currentPiece, gameOver>>
                  /\ UNCHANGED <<level, isPaused>>

\* movePieceDown; currentPiece, gameOver, isPaused, level and (through
\* isValidPosition and placePiece) board are those of the closure; setLines
\* and setScore are functional updates of the state.  cap bounds the line
\* counter.
movePieceDown(rng, cap) ==
  IF closure.currentPiece = NULL \/ closure.gameOver \/ closure.isPaused
  THEN UNCHANGED vars
  ELSE LET newPosition == [closure.currentPiece.position EXCEPT !.y = closure.currentPiece.position.y + 1]
       IN IF isValidPosition(closure.board, closure.currentPiece.shape, newPosition)
          THEN /\ currentPiece' = [closure.currentPiece EXCEPT !.position = newPosition]
               /\ UNCHANGED <<board, score, lines, level, gameOver, isPaused>>
          ELSE LET newBoard == placePiece(closure.board, closure.currentPiece)
                   cleared == clearLines(newBoard)
               IN /\ lines + cleared.linesCleared <= cap
                  /\ board' = cleared.newBoard
                  /\ lines' = lines + cleared.linesCleared
                  /\ score' = score + cleared.linesCleared * 100 * closure.level
                  /\ \E randomType \in rng :
                       LET nextPiece == createRandomPiece(randomType)
                       IN IF ~isValidPosition(closure.board, nextPiece.shape, nextPiece.position)
                          THEN gameOver' = TRUE /\ UNCHANGED currentPiece
                          ELSE currentPiece' = nextPiece /\ UNCHANGED gameOver
                  /\ UNCHANGED <<level, isPaused>>

\* the guard of handleKeyPress without the gameOver test
KeyIgnoredNoGameOver == closure.currentPiece = NULL \/ closure.isPaused

\* the guard of handleKeyPress without the isPaused test
KeyIgnoredNoPaused == closure.currentPiece = NULL \/ closure.gameOver

\* the guard at the head of handleKeyPress
KeyIgnored == closure.currentPiece = NULL \/ closure.gameOver \/ closure.isPaused

\* case "ArrowLeft" without the isValidPosition test
ArrowLeftUnchecked ==
  /\ IF KeyIgnored THEN UNCHANGED vars
     ELSE LET leftPosition == [closure.currentPiece.position EXCEPT !.x = closure.currentPiece.position.x - 1]
          IN /\ currentPiece' = [closure.currentPiece EXCEPT !.position = leftPosition]
             /\ UNCHANGED <<board, score, lines, level, gameOver, isPaused>>
  /\ Commit

\* handleKeyPress, case "ArrowLeft"
ArrowLeft ==
  /\ IF KeyIgnored THEN UNCHANGED vars
     ELSE LET leftPosition == [closure.currentPiece.position EXCEPT !.x = closure.currentPiece.position.x - 1]
          IN /\ IF isValidPosition(closure.board, closure.currentPiece.shape, leftPosition)
                THEN currentPiece' = [closure.currentPiece EXCEPT !.position = leftPosition]
                ELSE UNCHANGED currentPiece
             /\ UNCHANGED <<board, score, lines, level, gameOver, isPaused>>
  /\ Commit

\* handleKeyPress, case "ArrowRight"
ArrowRight ==
  /\ IF KeyIgnored THEN UNCHANGED vars
     ELSE LET rightPosition == [closure.currentPiece.position EXCEPT !.x = closure.currentPiece.position.x + 1]
          IN /\ IF isValidPosition(closure.board, closure.currentPiece.shape, rightPosition)
                THEN currentPiece' = [closure.currentPiece EXCEPT !.position = rightPosition]
                ELSE UNCHANGED currentPiece
             /\ UNCHANGED <<board, score, lines, level, gameOver, isPaused>>
  /\ Commit

\* handleKeyPress, case "ArrowUp" / " "
ArrowUp ==
  /\ IF KeyIgnored THEN UNCHANGED vars
     ELSE LET rotatedShape == rotatePiece(closure.currentPiece.shape)
          IN /\ IF isValidPosition(closure.board, rotatedShape, closure.currentPiece.position)
                THEN currentPiece' = [closure.currentPiece EXCEPT !.shape = rotatedShape]
                ELSE UNCHANGED currentPiece
             /\ UNCHANGED <<board, score, lines, level, gameOver, isPaused>>
  /\ Commit

\* handleKeyPress, case "p" / "P": setIsPaused((prev) => !prev)
KeyP ==
  /\ IF KeyIgnored THEN UNCHANGED vars
     ELSE /\ isPaused' = ~isPaused
          /\ UNCHANGED <<board, currentPiece, score, lines, level, gameOver>>
  /\ Commit

\* Pause button: onClick={() => setIsPaused(!isPaused)} disabled={gameOver}
PauseButton ==
  /\ ~closure.gameOver
  /\ isPaused' = ~closure.isPaused
  /\ UNCHANGED <<board, currentPiece, score, lines, level, gameOver>>
  /\ Commit

\* startNewGame without setIsPaused(false)
startNewGameKeepsPause(rng) ==
  /\ board' = EMPTY_BOARD
  /\ \E randomType \in rng : currentPiece' = createRandomPiece(randomType)
  /\ score' = 0
  /\ lines' = 0
  /\ level' = 1
  /\ gameOver' = FALSE
  /\ isPaused' = isPaused
  /\ Commit

\* startNewGame (both New Game buttons)
startNewGame(rng) ==
  /\ board' = EMPTY_BOARD
  /\ \E randomType \in rng : currentPiece' = createRandomPiece(randomType)
  /\ score' = 0
  /\ lines' = 0
  /\ level' = 1
  /\ gameOver' = FALSE
  /\ isPaused' = FALSE
  /\ Commit

\* the level effect without the "+ 1"
UpdateLevelFromZero ==
  /\ level' = lines \div 10
  /\ UNCHANGED <<board, currentPiece, score, lines, gameOver, isPaused>>
  /\ Commit

\* useEffect "Update level based on lines cleared": a callback of its own, run
\* after the render that committed the new line count
UpdateLevel ==
  /\ level' = (lines \div 10) + 1
  /\ UNCHANGED <<board, currentPiece, score, lines, gameOver, isPaused>>
  /\ Commit

\* Math.max(100, 1000 - (level - 1) * 100)
speed(lvl) == IF 1000 - (lvl - 1) * 100 > 100 THEN 1000 - (lvl - 1) * 100 ELSE 100

\* the game loop effect without the isPaused test
gameLoopRefWhilePaused ==
  IF ~closure.gameOver THEN speed(closure.level) ELSE 0

\* useEffect "Game loop": the period of the interval its last run left armed,
\* 0 when it armed none
gameLoopRef ==
  IF ~closure.gameOver /\ ~closure.isPaused THEN speed(closure.level) ELSE 0

\* setInterval(movePieceDown, speed)
Tick == gameLoopRef # 0 /\ movePieceDown(types, MaxLines) /\ Commit

\* handleKeyPress, case "ArrowDown"
ArrowDown ==
  /\ IF KeyIgnored THEN UNCHANGED vars ELSE movePieceDown(types, MaxLines)
  /\ Commit

NewGame == startNewGame(types)

Next ==
  \/ Tick
  \/ ArrowLeft
  \/ ArrowRight
  \/ ArrowDown
  \/ ArrowUp
  \/ KeyP
  \/ PauseButton
  \/ NewGame
  \/ UpdateLevel

Spec == Init /\ [][Next]_vars

\* The interval alone: no key is pressed and no button is clicked. An armed
\* interval keeps firing (setInterval), hence the fairness condition.
NextTicks == Tick

SpecTicks == Init /\ [][NextTicks]_vars /\ WF_vars(Tick)

\* The same machine with the random source restricted to I pieces
InitLevel == InitWith(LevelTypes)

TickLevel == gameLoopRef # 0 /\ movePieceDown(LevelTypes, MaxLinesLevel) /\ Commit

ArrowDownLevel ==
  /\ IF KeyIgnored THEN UNCHANGED vars ELSE movePieceDown(LevelTypes, MaxLinesLevel)
  /\ Commit

NewGameLevel == startNewGame(LevelTypes)

NextLevel ==
  \/ TickLevel
  \/ ArrowLeft
  \/ ArrowRight
  \/ ArrowDownLevel
  \/ ArrowUp
  \/ KeyP
  \/ PauseButton
  \/ NewGameLevel
  \/ UpdateLevel

SpecLevel == InitLevel /\ [][NextLevel]_vars

(***************************************************************************)
(* Vocabulary of the properties, stated on cells rather than by the        *)
(* operators of the model.                                                 *)
(***************************************************************************)

\* The same machine with the render that follows an interval callback as a
\* step of its own. setInterval calls movePieceDown outside any event handler:
\* its setState calls are batched and rendered in a later task, and until that
\* render has run its effects the keydown listener and the interval still hold
\* the callbacks of the previous render. A keydown is a discrete event: its
\* updates are rendered, together with any pending ones, before the next
\* trigger.
TickAsync ==
  /\ gameLoopRef # 0
  /\ closure = Render
  /\ movePieceDown(LevelTypes, MaxLinesLevel)
  /\ UNCHANGED closure

Rerender ==
  /\ closure # Render
  /\ UNCHANGED vars
  /\ Commit

NextAsync ==
  \/ TickAsync
  \/ Rerender
  \/ ArrowLeft
  \/ ArrowRight
  \/ ArrowDownLevel
  \/ ArrowUp
  \/ KeyP
  \/ PauseButton
  \/ NewGameLevel
  \/ UpdateLevel

SpecAsync == InitLevel /\ [][NextAsync]_allvars

\* The grid coordinates <<column, row>> (0-based) of the set cells of a shape at a position
MappedCells(shape, position) ==
  { <<position.x + (x - 1), position.y + (y - 1)>> :
      <<x, y>> \in { c \in (1..4) \X (1..4) :
                       /\ c[2] <= Len(shape)
                       /\ c[1] <= Len(shape[c[2]])
                       /\ shape[c[2]][c[1]] # 0 } }

\* Cell <<column, row>> lies on the grid b and is filled
FilledAt(b, cell) ==
  /\ cell[1] \in 0..(BOARD_WIDTH - 1)
  /\ cell[2] \in 0..(BOARD_HEIGHT - 1)
  /\ b[cell[2] + 1][cell[1] + 1] # 0

\* The contract of the collision check
Fits(b, shape, position) ==
  \A cell \in MappedCells(shape, position) :
    /\ cell[1] \in 0..(BOARD_WIDTH - 1)
    /\ cell[2] < BOARD_HEIGHT
    /\ ~FilledAt(b, cell)

Active == currentPiece # NULL /\ ~gameOver /\ ~isPaused

Below(position) == [position EXCEPT !.y = position.y + 1]

CanDescend == Fits(board, currentPiece.shape, Below(currentPiece.position))

\* The step leaves a freshly reset session
IsReset ==
  /\ board' = EMPTY_BOARD /\ score' = 0 /\ lines' = 0 /\ level' = 1
  /\ ~gameOver' /\ ~isPaused'
  /\ \E t \in types : currentPiece' = createRandomPiece(t)

\* A landing: a step of the Active state, other than a reset, that changes the
\* grid, the line counter or gameOver
LandingStep ==
  /\ Active /\ ~IsReset
  /\ (board' # board \/ lines' # lines \/ gameOver' # gameOver)

\* The step is the level effect, or leaves level alone
LevelStep == level' = level \/ level' = (lines \div 10) + 1

\* C1: while a piece exists and the game is not over, no set cell of the
\* current piece coincides with a filled cell of the grid.
C1_NoOverlap ==
  (currentPiece # NULL /\ ~gameOver) =>
    \A cell \in MappedCells(currentPiece.shape, currentPiece.position) :
      ~FilledAt(board, cell)

\* C2: on a landing the new piece is installed if and only if it does not
\* collide, at its spawn position, with the grid after the merge and the line
\* clear; otherwise the game is over and the piece is not installed.
C2_SpawnCheckedAgainstNewGrid ==
  [][LandingStep =>
       IF gameOver'
       THEN /\ currentPiece' = currentPiece
            /\ \E t \in types :
                 ~Fits(board', createRandomPiece(t).shape, createRandomPiece(t).position)
       ELSE /\ \E t \in types : currentPiece' = createRandomPiece(t)
            /\ Fits(board', currentPiece'.shape, currentPiece'.position)]_vars

C4_PausedFrame ==
  [][isPaused =>
       \/ IsReset
       \/ /\ UNCHANGED <<board, currentPiece, score, lines, gameOver>>
          /\ LevelStep
          /\ (isPaused' # isPaused => level' = level)]_vars

\* A paused state with a piece in mid-descent over a non-empty grid
C4_Witness ==
  /\ isPaused /\ currentPiece # NULL /\ ~gameOver
  /\ currentPiece.position.y > 0
  /\ board # EMPTY_BOARD

\* C5: whenever the game is not over, the pause key flips paused, in the
\* Paused state as in the Active state.
C5_PauseKeyToggles ==
  (currentPiece # NULL /\ ~gameOver) => ENABLED (KeyP /\ isPaused' = ~isPaused)

\* The rows of grid g with every cell filled
CompleteRows(g) == { y \in 1..Len(g) : \A x \in 1..Len(g[y]) : g[y][x] # 0 }

\* The grid a landing of the current piece at its position hands to clearLines
MergedGrid == placePiece(board, currentPiece)

\* C6: a landing that clears n rows adds n to linesCleared and n * 100 * L to
\* score, L being floor(linesCleared / 10) + 1 for the linesCleared before the
\* landing; no other step, except a reset, changes score or linesCleared.
C6_ScoreRule ==
  [][\/ IsReset
     \/ LET n == lines' - lines
        IN /\ n >= 0
           /\ score' = score + n * 100 * ((lines \div 10) + 1)
           /\ LandingStep => n = Cardinality(CompleteRows(MergedGrid))
           /\ ~LandingStep => n = 0]_vars

\* C7: in every state, level equals floor(linesCleared / 10) + 1.
C7_LevelFollowsLines == level = (lines \div 10) + 1

\* C8: for the grid g that results from merging the current piece, clearLines
\* returns BOARD_HEIGHT rows: as many empty rows on top as g has complete rows,
\* then the incomplete rows of g, unchanged and in their order; the count it
\* returns is the number of complete rows of g.
C8_ClearLines ==
  currentPiece # NULL =>
    LET g == MergedGrid
        r == clearLines(g)
        count == Cardinality(CompleteRows(g))
        kept == (1..Len(g)) \ CompleteRows(g)
    IN /\ r.linesCleared = count
       /\ Len(r.newBoard) = BOARD_HEIGHT
       /\ \A k \in 1..count : r.newBoard[k] = EmptyRow
       /\ \A y \in kept :
            r.newBoard[count + Cardinality({ z \in kept : z <= y })] = g[y]

\* The piece has come to rest where the merge completes a row that lies below
\* an incomplete, non-empty row
C8_Witness ==
  /\ Active /\ ~CanDescend
  /\ \E y \in CompleteRows(MergedGrid) :
       \E z \in 1..(y - 1) :
         /\ z \notin CompleteRows(MergedGrid)
         /\ MergedGrid[z] # EmptyRow

\* The effect of a horizontal move by dx in the Active state
MoveEffect(dx) ==
  LET target == [currentPiece.position EXCEPT !.x = currentPiece.position.x + dx]
  IN IF Fits(board, currentPiece.shape, target)
     THEN /\ currentPiece' = [currentPiece EXCEPT !.position = target]
          /\ UNCHANGED <<board, score, lines, level, gameOver, isPaused>>
     ELSE UNCHANGED vars

SpawnX(shape) == (BOARD_WIDTH \div 2) - (Len(shape[1]) \div 2)

RotatedCW(shape) ==
  [c \in 1..Len(shape[1]) |-> [k \in 1..Len(shape) |-> shape[Len(shape) + 1 - k][c]]]

\* The effect of rotate in the Active state
RotateEffect ==
  IF Fits(board, RotatedCW(currentPiece.shape), currentPiece.position)
  THEN /\ currentPiece' = [currentPiece EXCEPT !.shape = RotatedCW(currentPiece.shape)]
       /\ UNCHANGED <<board, score, lines, level, gameOver, isPaused>>
  ELSE UNCHANGED vars

RotationInputs ==
  { SubSeq(currentPiece.shape, 1, k) : k \in 1..Len(currentPiece.shape) }

\* C11: rotatePiece maps a shape of R rows and C columns to one of C rows and
\* R columns with output[c][R-1-r] = input[r][c], and four applications give
\* the original matrix back.
C11_RotatePiece ==
  currentPiece # NULL =>
    \A m \in RotationInputs :
      LET out == rotatePiece(m)
          R == Len(m)
          C == Len(m[1])
      IN /\ Len(out) = C
         /\ \A c \in 1..C : Len(out[c]) = R
         /\ \A r \in 1..R : \A c \in 1..C : out[c][R + 1 - r] = m[r][c]
         /\ rotatePiece(rotatePiece(rotatePiece(out))) = m

\* The current piece is in the orientation one rotation after its initial one
C11_Witness ==
  /\ currentPiece # NULL
  /\ \A t \in types : currentPiece.shape # TETROMINOES[t].shape
  /\ \E t \in types :
       rotatePiece(rotatePiece(rotatePiece(currentPiece.shape))) = TETROMINOES[t].shape

\* The candidate positions tried: offsets that leave the grid on each side
CandidatePositions ==
  { [x |-> px, y |-> py] : px \in (0 - 2)..BOARD_WIDTH, py \in (0 - 2)..BOARD_HEIGHT }

\* C12: for the grid and the shape of every reachable state and every
\* candidate position, isValidPosition is true exactly when each set cell maps
\* to a column in [0, W), to a row below H and, if its row is >= 0, to a cell
\* that is not filled; cells mapped to rows < 0 are accepted.
C12_IsValidPosition ==
  currentPiece # NULL =>
    \A p \in CandidatePositions :
      isValidPosition(board, currentPiece.shape, p) = Fits(board, currentPiece.shape, p)

\* Over a non-empty grid the three reasons to reject and the acceptance of
\* cells above the grid all occur
C12_Witness ==
  /\ currentPiece # NULL /\ board # EMPTY_BOARD
  /\ \E p \in CandidatePositions :
       /\ isValidPosition(board, currentPiece.shape, p)
       /\ \E cell \in MappedCells(currentPiece.shape, p) : cell[2] < 0
  /\ \E p \in CandidatePositions :
       /\ ~isValidPosition(board, currentPiece.shape, p)
       /\ \A cell \in MappedCells(currentPiece.shape, p) :
            cell[1] \in 0..(BOARD_WIDTH - 1) /\ cell[2] \in 0..(BOARD_HEIGHT - 1)
  /\ \E p \in CandidatePositions :
       /\ ~isValidPosition(board, currentPiece.shape, p)
       /\ \E cell \in MappedCells(currentPiece.shape, p) : cell[2] >= BOARD_HEIGHT

\* A fresh session: H rows of W empty cells, zeroed counters, level 1, not
\* over, not paused, one of the 7 shapes in its initial orientation at the
\* spawn position
Fresh ==
  /\ board = [r \in 1..BOARD_HEIGHT |-> [c \in 1..BOARD_WIDTH |-> 0]]
  /\ score = 0 /\ lines = 0 /\ level = 1
  /\ gameOver = FALSE /\ isPaused = FALSE
  /\ \E t \in types :
       /\ currentPiece.shape = TETROMINOES[t].shape
       /\ currentPiece.position = [x |-> SpawnX(TETROMINOES[t].shape), y |-> 0]

\* C13: in every reachable state (Active, Paused, GameOver) reset is accepted,
\* every one of its outcomes is a fresh session, and each of the 7 shapes can
\* be the first piece whatever was merged or rotated before.
C13_Reset ==
  /\ ENABLED NewGame
  /\ ~ENABLED (NewGame /\ ~Fresh')
  /\ \A t \in types : ENABLED (NewGame /\ currentPiece'.shape = TETROMINOES[t].shape)

\* A finished session with merged cells, cleared lines, points and a rotated
\* last piece, from which reset starts afresh
C13_Witness ==
  /\ gameOver /\ board # EMPTY_BOARD /\ lines > 0 /\ score > 0
  /\ \A t \in types : currentPiece.shape # TETROMINOES[t].shape
  /\ ENABLED (NewGame /\ Fresh')

\* Cell <<column, row>> is filled once the current piece is merged
MergedFilled(cell) ==
  FilledAt(board, cell) \/ cell \in MappedCells(currentPiece.shape, currentPiece.position)

GridCells == (0..(BOARD_WIDTH - 1)) \X (0..(BOARD_HEIGHT - 1))

\* The rows that are complete once the current piece is merged
MergedCompleteRows ==
  { y \in 0..(BOARD_HEIGHT - 1) : \A x \in 0..(BOARD_WIDTH - 1) : MergedFilled(<<x, y>>) }

\* A piece as installed by a spawn
AtSpawn(p) ==
  \E t \in types :
    /\ p.shape = TETROMINOES[t].shape
    /\ p.position = [x |-> SpawnX(TETROMINOES[t].shape), y |-> 0]

\* The landing of the current piece would take the line counter past the
\* bound of the model
LineBoundReached ==
  Active /\ ~CanDescend /\ lines + Cardinality(MergedCompleteRows) > MaxLines

\* What a tick does in the Active state
TickStep ==
  Active =>
    IF CanDescend
    THEN /\ currentPiece' = [currentPiece EXCEPT !.position = Below(currentPiece.position)]
         /\ UNCHANGED <<board, score, lines, level, gameOver, isPaused>>
    ELSE /\ lines' - lines = Cardinality(MergedCompleteRows)
         /\ Cardinality({ cell \in GridCells : FilledAt(board', cell) })
              = Cardinality({ cell \in GridCells : MergedFilled(cell) })
                  - BOARD_WIDTH * Cardinality(MergedCompleteRows)
         /\ MergedCompleteRows = {} =>
              \A cell \in GridCells : FilledAt(board', cell) <=> MergedFilled(cell)
         /\ \/ gameOver' /\ currentPiece' = currentPiece
            \/ ~gameOver' /\ AtSpawn(currentPiece')
         /\ board = EMPTY_BOARD => ~gameOver' /\ AtSpawn(currentPiece')

\* C14: with only ticks occurring from the empty grid, a tick of the Active
\* state moves the piece down by exactly one row when the position one row
\* lower is valid and is a landing otherwise (the cells are merged, and on the
\* empty grid a new piece is installed at the spawn position); such a tick is
\* never a no-op; the piece leaves every row it is on, and the descents and
\* landings end with the game over (or with the line counter at the bound of
\* the model), so every piece lands after finitely many ticks.
C14_TicksOnly ==
  /\ [][TickStep]_vars
  /\ [](Active /\ ~LineBoundReached => ENABLED <<Tick>>_vars)
  /\ \A k \in 0..(BOARD_HEIGHT - 1) :
       (Active /\ currentPiece.position.y = k)
         ~> (gameOver \/ LineBoundReached \/ currentPiece.position.y # k)
  /\ <>[](gameOver \/ LineBoundReached)

\* After a landing on the empty grid the merged cells are on the grid and the
\* next piece, installed at the spawn position, has started its descent
C14_Witness ==
  /\ Active /\ board # EMPTY_BOARD /\ lines = 0
  /\ currentPiece.position.y > 0
  /\ ~CanDescend

\* C15: between two resets linesCleared, score and level never decrease from
\* one state to the next; score and linesCleared are non-negative integers and
\* level is a positive integer.
C15_Monotone ==
  /\ [](score \in Nat /\ lines \in Nat /\ level \in Nat /\ level >= 1)
  /\ [][IsReset \/ (lines' >= lines /\ score' >= score /\ level' >= level)]_vars

\* The session has passed ten lines, the level has followed, and a line
\* cleared at level 2 has been scored
C15_Witness == level = 2 /\ lines = 11 /\ score = 1200

MaxLevel == 12

\* max(100, 1000 - (L - 1) * 100), as a choice from the two candidates
Period(L) ==
  CHOOSE m \in {100, 1000 - (L - 1) * 100} :
    m >= 100 /\ m >= 1000 - (L - 1) * 100

PieceStep ==
  \/ /\ currentPiece'.shape = currentPiece.shape
     /\ \E d \in {<<0 - 1, 0>>, <<1, 0>>, <<0, 1>>} :
          currentPiece'.position = [x |-> currentPiece.position.x + d[1],
                                    y |-> currentPiece.position.y + d[2]]
     /\ Fits(board, currentPiece'.shape, currentPiece'.position)
  \/ /\ currentPiece'.shape = RotatedCW(currentPiece.shape)
     /\ currentPiece'.position = currentPiece.position
     /\ Fits(board, currentPiece'.shape, currentPiece'.position)

\* The landing of the current piece on the current grid, scored once at the
\* current level
LandingOnce ==
  /\ Active /\ ~CanDescend
  /\ lines' - lines = Cardinality(MergedCompleteRows)
  /\ score' - score = Cardinality(MergedCompleteRows) * 100 * level
  /\ Cardinality({ cell \in GridCells : FilledAt(board', cell) })
       = Cardinality({ cell \in GridCells : MergedFilled(cell) })
           - BOARD_WIDTH * Cardinality(MergedCompleteRows)
  /\ gameOver' \/ AtSpawn(currentPiece')

\* C17: every trigger is decided against the state the previous trigger left
\* and all of its updates are applied at once: a step that is not a reset
\* changes the grid, linesCleared or score only as the one landing of the
\* current piece on the current grid, and otherwise changes the piece only
\* by one move or rotation from its current place, in the Active state.
C17_SerializedTriggers ==
  [][\/ IsReset
     \/ LandingOnce
     \/ /\ UNCHANGED <<board, lines, score>>
        /\ currentPiece' # currentPiece => (Active /\ PieceStep)]_vars

\* g has exactly H rows of W cells, each 0 or 1
WellFormedGrid(g) ==
  /\ Len(g) = BOARD_HEIGHT
  /\ \A y \in 1..BOARD_HEIGHT :
       Len(g[y]) = BOARD_WIDTH /\ \A x \in 1..BOARD_WIDTH : g[y][x] \in {0, 1}

\* The current piece lifted by up to two rows, so that part of it can lie
\* above the grid
LiftedPieces ==
  { [currentPiece EXCEPT !.position.y = currentPiece.position.y - up] : up \in 0..2 }

\* C18: placePiece returns the grid in which a cell is filled exactly when it
\* was filled before or is covered by a set cell of the piece; set cells
\* mapped to rows < 0 have no effect; and, with clearLines, the grid has
\* exactly H rows of W cells in every reachable state.
C18_PlacePiece ==
  /\ WellFormedGrid(board)
  /\ currentPiece # NULL =>
       \A piece \in LiftedPieces :
         LET merged == placePiece(board, piece)
         IN /\ WellFormedGrid(merged)
            /\ WellFormedGrid(clearLines(merged).newBoard)
            /\ \A cell \in GridCells :
                 FilledAt(merged, cell) <=>
                   \/ FilledAt(board, cell)
                   \/ cell \in MappedCells(piece.shape, piece.position)

\* A piece about to land on a non-empty grid, near enough to the top for a
\* lifted copy to reach above the grid
C18_Witness ==
  /\ Active /\ ~CanDescend /\ board # EMPTY_BOARD
  /\ \E cell \in MappedCells(currentPiece.shape, currentPiece.position) : cell[2] <= 1
  /\ \E cell \in GridCells :
       /\ FilledAt(board, cell) /\ FilledAt(MergedGrid, cell)
       /\ cell \notin MappedCells(currentPiece.shape, currentPiece.position)

\* The rows (numbered from 1) that hold a set cell of the current piece
PieceRows ==
  { cell[2] + 1 : cell \in MappedCells(currentPiece.shape, currentPiece.position) }

\* C19: no reachable grid has a complete row; the rows that the merge of the
\* current piece completes are rows of the piece, at most 4, and clearLines
\* leaves none of them, so a landing clears every complete row in its own
\* step and never more than 4.
C19_NoCompleteRow ==
  /\ CompleteRows(board) = {}
  /\ currentPiece # NULL =>
       /\ CompleteRows(MergedGrid) \subseteq PieceRows
       /\ Cardinality(CompleteRows(MergedGrid)) <= 4
       /\ clearLines(MergedGrid).linesCleared = Cardinality(CompleteRows(MergedGrid))
       /\ CompleteRows(clearLines(MergedGrid).newBoard) = {}

\* The piece has come to rest where its merge completes two rows at once,
\* with cells on the grid outside those rows
C19_Witness ==
  /\ Active /\ ~CanDescend
  /\ Cardinality(CompleteRows(MergedGrid)) = 2
  /\ clearLines(MergedGrid).newBoard # EMPTY_BOARD

\* C20: the position of the current piece has y >= 0 and every set cell of
\* the current piece maps to a column in [0, W) and a row in [0, H), so a
\* landing never meets a cell of a row < 0.
C20_PieceInsideGrid ==
  currentPiece # NULL =>
    /\ currentPiece.position.y >= 0
    /\ \A cell \in MappedCells(currentPiece.shape, currentPiece.position) :
         /\ cell[1] >= 0 /\ cell[1] < BOARD_WIDTH
         /\ cell[2] >= 0 /\ cell[2] < BOARD_HEIGHT

\* A rotated piece in the bottom right corner, about to land on a non-empty
\* grid
C20_Witness ==
  /\ Active /\ ~CanDescend /\ board # EMPTY_BOARD
  /\ \A t \in types : currentPiece.shape # TETROMINOES[t].shape
  /\ \E cell \in MappedCells(currentPiece.shape, currentPiece.position) :
       cell[1] = BOARD_WIDTH - 1
  /\ \E cell \in MappedCells(currentPiece.shape, currentPiece.position) :
       cell[2] = BOARD_HEIGHT - 1

====
